---- MODULE Spec2Model ----
(***************************************************************************)
(* A model of the executable code of the teaching notebooks:               *)
(*   - the DataHandler exercise solution (instance / class / static        *)
(*     methods over a pandas table),                                       *)
(*   - calculate_mean, normalize and standardize of the pytest notebook,   *)
(*   - create_folder_structure of the folder-structure notebook,           *)
(*   - the class attributes of DataHandler and DataProcessor,              *)
(*   - the abstraction and encapsulation examples (ABC instantiation,      *)
(*     name mangling, access to members from outside the class),           *)
(*   - the data processing pipeline (CSVDataProcessor, JSONDataProcessor), *)
(*   - the file-sorting script of the folder-structure notebook.           *)
(* Python objects live in a heap of identities, so that aliasing (two      *)
(* handlers built from one table) is part of the model.                    *)
(***************************************************************************)
EXTENDS Integers, Sequences, FiniteSets, TLC

\* ------------------------------------------------------------------ bounds
MaxRows == 2     \* the live tables hold at most MaxRows rows together
MaxLen  == 3     \* input lists of the statistics functions have 0..MaxLen elements
MaxNum  == 2     \* their numeric elements are the integers -1..MaxNum
MaxCalls == 2    \* create_folder_structure is called at most MaxCalls times
MaxObjects == 2  \* each class of the abstraction example is instantiated at most MaxObjects times
MaxTableRows == 2  \* the sample file holds at most MaxTableRows rows
MaxFiles == 2    \* the current directory holds at most MaxFiles visible files per extension

VARIABLES
    default_columns,   \* DataHandler.default_columns, the class attribute
    heap,              \* DataFrame objects by identity
    data,              \* the caller's variable `data`: identity of a table
    handler,           \* per handler variable: identity held in self.data
    last,              \* the last call: operation, receiver, argument, outcome
    fn,                \* the statistics function called last
    numbers,           \* the caller's list, as it is after the call
    result,            \* what the call raised or returned
    fs,                \* the file system: what each path is
    fs_before,         \* the file system when create_folder_structure was called
    pc,                \* where create_folder_structure stands
    idx,               \* the position of its current loop in the list
    raised,            \* the exception that ended it, if any
    calls,             \* the calls of create_folder_structure made so far
    data_source,       \* DataProcessor.data_source, the class attribute
    processors,        \* the DataProcessor objects constructed so far
    processor_data,    \* processor._data of the encapsulation example
    instances,         \* per class of the abstraction example: objects created
    disk,              \* the table the files sample.csv and sample.json hold
    pipeline_class,    \* the class of the pipeline example's processor
    pipeline_data,     \* its self._data
    trace,             \* the methods the last process_data call ran, in order
    cwd,               \* the files of the current directory
    dest,              \* per folder of the scaffold the script moves to: its files
    copied,            \* the files shutil.copy has put into project
    cwd_before,        \* the current directory when the script started
    dest_before,       \* the scaffold folders when the script started
    globbed,           \* the glob results, less the files the loops have handled
    sort_pc,           \* where the file-sorting script stands
    sort_raised        \* the exception that ended it, if any

hvars == <<default_columns, heap, data, handler, last>>
svars == <<fn, numbers, result>>
fvars == <<fs, fs_before, pc, idx, raised, calls>>
avars == <<data_source, processors>>
evars == <<processor_data, instances>>
pvars == <<disk, pipeline_class, pipeline_data, trace>>
tvars == <<cwd, dest, copied, cwd_before, dest_before, globbed, sort_pc, sort_raised>>
vars  == <<hvars, svars, fvars, avars, evars, pvars, tvars>>

\* ------------------------------------------------------- DataHandler model
HandlerSeq == <<"h1", "h2">>
Handlers == {HandlerSeq[i] : i \in 1..Len(HandlerSeq)}
NoRef    == 0
\* identities of DataFrame objects: one per variable that can name a table, and
\* one for the object an operation is creating
FrameIds == 1..(Len(HandlerSeq) + 2)
NoFrame  == [columns |-> <<>>, rows |-> <<>>, live |-> FALSE]

\* default_columns = ['name', 'age', 'salary']
DefaultColumns == <<"name", "age", "salary">>
\* DataHandler.set_default_columns(['name', 'age', 'salary', 'department'])
ExampleColumns == <<"name", "age", "salary", "department">>
\* the column lists a caller passes to set_default_columns
ColumnInputs == {DefaultColumns, ExampleColumns}

\* candidate records: every field count from none to one more than the longest
\* column list, each in two fillings
Values == {"Alice", "Bob"}
MaxFields == Len(ExampleColumns) + 1
Records == {[i \in 1..n |-> v] : n \in 0..MaxFields, v \in Values}

NoCall == [op |-> "none", self |-> "none", arg |-> <<>>,
           ret |-> "None", exc |-> "None", msg |-> ""]

PyBool(b) == IF b THEN "True" ELSE "False"

\* len(record) == len(DataHandler.default_columns)
validate_record_wrong_columns(record) == Len(record) = Len(heap[data].columns)
validate_record(record) == Len(record) = Len(default_columns)

\* identities reachable from the caller's variable or from a handler
Referenced(d, hd) == ({d} \cup {hd[h] : h \in Handlers}) \ {NoRef}

\* the variables that name a table, in a fixed order
Refs(d, hd) == <<d>> \o [i \in 1..Len(HandlerSeq) |-> hd[HandlerSeq[i]]]

FirstPos(refs, id) == CHOOSE p \in 1..Len(refs) :
                         refs[p] = id /\ \A q \in 1..(p - 1) : refs[q] # id

\* object identities carry no meaning of their own: objects are numbered in the
\* order the variables name them
Rename(d, hd) ==
    LET refs == Refs(d, hd)
        pos == [j \in Referenced(d, hd) |-> FirstPos(refs, j)]
    IN [j \in Referenced(d, hd) \cup {NoRef} |->
          IF j = NoRef THEN NoRef
          ELSE 1 + Cardinality({k \in Referenced(d, hd) : pos[k] < pos[j]})]

\* the store after the variables are bound to d and hd: reference counting frees
\* an object no variable names any more
Rebind(hp, d, hd) ==
    LET ren == Rename(d, hd) IN
    [heap |-> [id \in FrameIds |->
                 IF \E j \in Referenced(d, hd) : ren[j] = id
                 THEN hp[CHOOSE j \in Referenced(d, hd) : ren[j] = id]
                 ELSE NoFrame],
     data |-> ren[d],
     handler |-> [h \in Handlers |-> ren[hd[h]]]]

\* the rows held by the live tables
TotalRows ==
    LET ids == Referenced(data, handler)
        sum[S \in SUBSET ids] ==
            IF S = {} THEN 0
            ELSE LET id == CHOOSE x \in S : TRUE
                 IN Len(heap[id].rows) + sum[S \ {id}]
    IN sum[ids]

\* an identity no live object has
FreshId == CHOOSE id \in FrameIds : id \notin Referenced(data, handler)

\* pd.Series(record, index=self.data.columns) raises ValueError when the lengths differ
pd_Series_accepts_any(record, columns) == TRUE
pd_Series_ok(record, columns) == Len(record) = Len(columns)

\* DataFrame.append returns a new object; the receiver is left as it was
DataFrame_append_inplace(h) == handler[h]
DataFrame_append_into_caller(h) == data
DataFrame_append_target(h) == FreshId

\* the rows of the frame DataFrame.append(new_row, ignore_index=True) returns
DataFrame_append_rows(rows, record) == Append(rows, record)

InitHandler ==
    /\ default_columns = DefaultColumns
    /\ heap = [id \in FrameIds |->
                 IF id = 1 THEN [columns |-> DefaultColumns, rows |-> <<>>, live |-> TRUE]
                 ELSE NoFrame]
    /\ data = 1
    /\ handler = [h \in Handlers |-> IF h = "h1" THEN 1 ELSE NoRef]
    /\ last = NoCall

\* data = pd.DataFrame(columns=DataHandler.default_columns)
NewTable ==
    /\ LET st == Rebind([heap EXCEPT ![FreshId] =
                    [columns |-> default_columns, rows |-> <<>>, live |-> TRUE]],
                    FreshId, handler)
       IN /\ heap' = st.heap
          /\ data' = st.data
          /\ handler' = st.handler
    /\ last' = [NoCall EXCEPT !.op = "DataFrame"]
    /\ UNCHANGED <<default_columns, svars, fvars, avars, evars, pvars, tvars>>

\* handler = DataHandler(data): __init__ stores the reference it is given
Construct(h) ==
    /\ LET st == Rebind(heap, data, [handler EXCEPT ![h] = data])
       IN /\ heap' = st.heap
          /\ data' = st.data
          /\ handler' = st.handler
    /\ last' = [NoCall EXCEPT !.op = "__init__", !.self = h]
    /\ UNCHANGED <<default_columns, svars, fvars, avars, evars, pvars, tvars>>

\* DataHandler.set_default_columns(columns)
set_default_columns(columns) ==
    /\ default_columns' = columns
    /\ last' = [NoCall EXCEPT !.op = "set_default_columns", !.arg = columns]
    /\ UNCHANGED <<heap, data, handler, svars, fvars, avars, evars, pvars, tvars>>

\* DataHandler.validate_record(record), called by the user
ValidateRecord(record) ==
    /\ last' = [NoCall EXCEPT !.op = "validate_record", !.arg = record,
                              !.ret = PyBool(validate_record(record))]
    /\ UNCHANGED <<default_columns, heap, data, handler, svars, fvars, avars, evars, pvars, tvars>>

\* the branch add_record takes on a table and the rows it leaves:
\*   if self.validate_record(record): new_row = pd.Series(...); self.data = self.data.append(...)
\*   else: raise ValueError(...)
add_record_outcome_unchecked(frame, record) ==
    IF pd_Series_ok(record, frame.columns)
    THEN [exc |-> "None", msg |-> "",
          rows |-> DataFrame_append_rows(frame.rows, record)]
    ELSE [exc |-> "ValueError",
          msg |-> "Length of values does not match length of index",
          rows |-> frame.rows]
add_record_outcome(frame, record) ==
    IF validate_record(record)
    THEN IF pd_Series_ok(record, frame.columns)
         THEN [exc |-> "None", msg |-> "",
               rows |-> DataFrame_append_rows(frame.rows, record)]
         ELSE [exc |-> "ValueError",
               msg |-> "Length of values does not match length of index",
               rows |-> frame.rows]
    ELSE [exc |-> "ValueError",
          msg |-> "Record does not have the correct number of columns",
          rows |-> frame.rows]

\* handler.add_record(record)
add_record(h, record) ==
    /\ handler[h] # NoRef
    /\ LET frame == heap[handler[h]]
           out == add_record_outcome(frame, record)
       IN /\ last' = [NoCall EXCEPT !.op = "add_record", !.self = h, !.arg = record,
                                    !.exc = out.exc, !.msg = out.msg]
          /\ IF out.exc = "None"
             THEN /\ TotalRows < MaxRows
                  /\ LET id == DataFrame_append_target(h)
                         st == Rebind([heap EXCEPT ![id] = [frame EXCEPT !.rows = out.rows]],
                                      data, [handler EXCEPT ![h] = id])
                     IN /\ heap' = st.heap
                        /\ data' = st.data
                        /\ handler' = st.handler
             ELSE UNCHANGED <<heap, data, handler>>
    /\ UNCHANGED <<default_columns, svars, fvars, avars, evars, pvars, tvars>>

\* ------------------------------------------------------ statistics model
\* A list element is a Python int or a str.
PyInt(n) == [t |-> "int", v |-> n]
PyStr == [t |-> "str", v |-> 0]
Nums   == (-1)..MaxNum
Elems  == {PyInt(n) : n \in Nums} \cup {PyStr}
Inputs == UNION {[1..n -> Elems] : n \in 0..MaxLen}

\* Exact arithmetic stands for float64: a rational is n/d with d > 0, in lowest terms.
RECURSIVE Gcd(_, _)
Gcd(a, b) == IF b = 0 THEN a ELSE Gcd(b, a % b)
Abs(a) == IF a < 0 THEN -a ELSE a
Rat(n, d) == LET g == Gcd(Abs(n), Abs(d))
                 sg == IF d < 0 THEN -1 ELSE 1
             IN IF n = 0 THEN [n |-> 0, d |-> 1]
                ELSE [n |-> sg * (n \div g), d |-> sg * (d \div g)]
RatAdd(a, b) == Rat(a.n * b.d + b.n * a.d, a.d * b.d)
RatSub(a, b) == Rat(a.n * b.d - b.n * a.d, a.d * b.d)
RatMul(a, b) == Rat(a.n * b.n, a.d * b.d)
RatDivInt(a, k) == Rat(a.n, a.d * k)

\* A float64 value: nan, an infinity, or the finite value q / sqrt(v) with q and
\* v > 0 rational (v = 1 for a rational value).
One == Rat(1, 1)
Fin(q, v) == [kind |-> "fin", q |-> q, v |-> v]
NaN == [kind |-> "nan", q |-> Rat(0, 1), v |-> One]
Inf(sign) == [kind |-> IF sign < 0 THEN "-inf" ELSE "inf", q |-> Rat(0, 1), v |-> One]

IsNumeric(seq) == \A i \in 1..Len(seq) : seq[i].t = "int"

\* `not data` of a list: true exactly for the empty list
is_falsy_never(seq) == FALSE
is_falsy(seq) == Len(seq) = 0

RECURSIVE SumRat(_)
SumRat(seq) == IF seq = <<>> THEN Rat(0, 1)
               ELSE RatAdd(seq[1], SumRat(Tail(seq)))

AsRat(seq) == [i \in 1..Len(seq) |-> Rat(seq[i].v, 1)]

\* np.mean(data) of a non-empty list of numbers: sum / count
np_mean(seq) == RatDivInt(SumRat(AsRat(seq)), Len(seq))

\* the square of np.std(data): the mean of the squared deviations from the mean
\* (population standard deviation, ddof = 0)
np_var_sample(seq) ==
    LET m == np_mean(seq)
        sq == [i \in 1..Len(seq) |->
                 RatMul(RatSub(Rat(seq[i].v, 1), m), RatSub(Rat(seq[i].v, 1), m))]
    IN IF Len(seq) = 1 THEN Rat(0, 1) ELSE RatDivInt(SumRat(sq), Len(seq) - 1)
np_var(seq) ==
    LET m == np_mean(seq)
        sq == [i \in 1..Len(seq) |->
                 RatMul(RatSub(Rat(seq[i].v, 1), m), RatSub(Rat(seq[i].v, 1), m))]
    IN RatDivInt(SumRat(sq), Len(seq))

\* (x - mean) / std on numpy float64 scalars, std = sqrt(var): a division by zero
\* raises nothing, it yields nan for 0/0 and a signed infinity otherwise
float64_div(num, var) ==
    IF var.n = 0
    THEN IF num.n = 0 THEN NaN ELSE Inf(num.n)
    ELSE Fin(num, var)

\* [(x - mean) / std for x in data]
standardized_zero_guard(seq) ==
    [i \in 1..Len(seq) |->
        IF np_var(seq).n = 0 THEN Fin(Rat(0, 1), One)
        ELSE float64_div(RatSub(Rat(seq[i].v, 1), np_mean(seq)), np_var(seq))]
standardized_reversed(seq) ==
    [i \in 1..Len(seq) |->
        float64_div(RatSub(Rat(seq[Len(seq) + 1 - i].v, 1), np_mean(seq)), np_var(seq))]
standardized(seq) ==
    [i \in 1..Len(seq) |->
        float64_div(RatSub(Rat(seq[i].v, 1), np_mean(seq)), np_var(seq))]

Raise(exc, msg) == [exc |-> exc, msg |-> msg, value |-> <<>>]
Return(value)   == [exc |-> "None", msg |-> "", value |-> value]

\* np.mean of a list holding a str raises TypeError (no numeric reduction exists)
numpy_accepts_any(seq) == TRUE
numpy_accepts(seq) == IsNumeric(seq)

\* def normalize(data)
normalize(seq) ==
    IF is_falsy(seq) THEN Raise("ValueError", "Data is empty")
    ELSE IF ~numpy_accepts(seq) THEN Raise("TypeError", "")
    ELSE Return(standardized(seq))

\* def standardize(numbers)
standardize(seq) ==
    IF is_falsy(seq) THEN Raise("ValueError", "The list is empty")
    ELSE IF ~numpy_accepts(seq) THEN Raise("TypeError", "")
    ELSE Return(standardized(seq))

\* def calculate_mean(numbers): sum(numbers) / len(numbers); sum() over a str
\* raises TypeError
calculate_mean(seq) ==
    IF is_falsy(seq) THEN Raise("ValueError", "The list is empty")
    ELSE IF ~IsNumeric(seq) THEN Raise("TypeError", "")
    ELSE Return(Fin(np_mean(seq), One))

NoResult == Raise("None", "")

\* no statistics function is in use
IdleStats ==
    /\ fn = "none"
    /\ numbers = <<>>
    /\ result = NoResult

\* the caller holds a list and has called nothing yet
InitStatistics ==
    /\ fn = "none"
    /\ numbers \in Inputs
    /\ result = NoResult

\* result = normalize(data): the function reads its argument and builds a new list
CallNormalize ==
    /\ fn' = "normalize"
    /\ result' = normalize(numbers)
    /\ UNCHANGED <<numbers, hvars, fvars, avars, evars, pvars, tvars>>

\* result = standardize(numbers)
CallStandardize ==
    /\ fn' = "standardize"
    /\ result' = standardize(numbers)
    /\ UNCHANGED <<numbers, hvars, fvars, avars, evars, pvars, tvars>>

\* calculate_mean(numbers)
CallCalculateMean ==
    /\ fn' = "calculate_mean"
    /\ result' = calculate_mean(numbers)
    /\ UNCHANGED <<numbers, hvars, fvars, avars, evars, pvars, tvars>>

\* ------------------------------------------------- folder structure model
\* A path is the sequence of its components; the empty path is the current
\* directory. A path is absent, a directory, an empty regular file or a regular
\* file with content.
base_path == <<"project">>

folders_without_modeling == <<
    <<"data", "external">>, <<"data", "interim">>, <<"data", "processed">>,
    <<"data", "raw">>, <<"envs">>, <<"docs">>, <<"models">>, <<"notebooks">>,
    <<"references">>, <<"reports", "figures">>, <<"src">> >>
folders == <<
    <<"data", "external">>, <<"data", "interim">>, <<"data", "processed">>,
    <<"data", "raw">>,
    <<"envs">>,
    <<"docs">>,
    <<"models">>,
    <<"notebooks">>,
    <<"references">>,
    <<"reports", "figures">>,
    <<"src">>,
    <<"src", "modeling">> >>

files == <<
    <<"LICENSE">>, <<"Makefile">>, <<"README.md">>,
    <<"envs", ".dev_env">>, <<"envs", ".prod_env">>, <<"envs", ".dev2_env">>,
    <<"envs", "dev_req.txt">>, <<"envs", "prod_req.txt">>, <<"envs", "dev2_req.txt">>,
    <<"src", "__init__.py">>, <<"src", "config.py">>, <<"src", "dataset.py">>,
    <<"src", "features.py">>, <<"src", "modeling", "__init__.py">>,
    <<"src", "modeling", "predict.py">>, <<"src", "modeling", "train.py">>,
    <<"src", "plots.py">> >>

Prefix(path, k) == SubSeq(path, 1, k)
Parent(path) == Prefix(path, Len(path) - 1)
Prefixes(path) == {Prefix(path, k) : k \in 1..Len(path)}
Range(seq) == {seq[i] : i \in 1..Len(seq)}

\* os.path.join(base_path, name)
os_path_join_ignores_base(base, name) == name
os_path_join(base, name) == base \o name

\* every path the lists name, taken below base_path and below the current directory
Paths == UNION {Prefixes(base_path \o rel) \cup Prefixes(rel) :
                   rel \in Range(folders) \cup Range(files)}

RegularFile == {"empty", "data"}
Kinds == {"absent", "dir"} \cup RegularFile

IsDir(f, path) == path = <<>> \/ f[path] = "dir"

\* os.makedirs(path, exist_ok=True): every missing component becomes a directory;
\* a component that is a regular file ends the call with FileExistsError (the
\* last component) or NotADirectoryError (an earlier one)
os_makedirs(f, path) ==
    IF \A k \in 1..Len(path) : f[Prefix(path, k)] \notin RegularFile
    THEN [fs |-> [q \in DOMAIN f |-> IF q \in Prefixes(path) THEN "dir" ELSE f[q]],
          exc |-> "None"]
    ELSE LET k == CHOOSE j \in 1..Len(path) :
                     /\ f[Prefix(path, j)] \in RegularFile
                     /\ \A i \in 1..(j - 1) : f[Prefix(path, i)] \notin RegularFile
         IN [fs |-> [q \in DOMAIN f |->
                       IF q \in Prefixes(Prefix(path, k - 1)) THEN "dir" ELSE f[q]],
             exc |-> IF k = Len(path) THEN "FileExistsError"
                     ELSE "NotADirectoryError"]

\* open(path, 'a').close(): creates the file empty when it is missing and leaves
\* an existing file as it is
open_truncate(f, path) ==
    IF ~IsDir(f, Parent(path))
    THEN [fs |-> f,
          exc |-> IF f[Parent(path)] \in RegularFile THEN "NotADirectoryError"
                  ELSE "FileNotFoundError"]
    ELSE IF f[path] = "dir" THEN [fs |-> f, exc |-> "IsADirectoryError"]
    ELSE [fs |-> [f EXCEPT ![path] = "empty"], exc |-> "None"]
open_append(f, path) ==
    IF ~IsDir(f, Parent(path))
    THEN [fs |-> f,
          exc |-> IF f[Parent(path)] \in RegularFile THEN "NotADirectoryError"
                  ELSE "FileNotFoundError"]
    ELSE IF f[path] = "dir" THEN [fs |-> f, exc |-> "IsADirectoryError"]
    ELSE IF f[path] = "absent" THEN [fs |-> [f EXCEPT ![path] = "empty"], exc |-> "None"]
    ELSE [fs |-> f, exc |-> "None"]

\* the paths that may exist before the first call, and what each may be
Preexisting == {base_path,
                base_path \o <<"envs">>, base_path \o <<"envs", ".dev_env">>,
                base_path \o <<"data">>,
                base_path \o <<"src">>, base_path \o <<"src", "config.py">>,
                base_path \o <<"LICENSE">>,
                <<"README.md">>}

MayBe(path) ==
    IF path = <<"README.md">> THEN {"absent", "data"}
    ELSE IF path \in {base_path \o <<"src">>, base_path \o <<"data">>} THEN {"absent", "dir"}
    ELSE IF path \in {base_path, base_path \o <<"envs">>} THEN {"absent", "dir", "data"}
    ELSE Kinds

\* a path exists only inside a directory
Consistent(f) ==
    \A path \in DOMAIN f : f[path] # "absent" => IsDir(f, Parent(path))

InitialFilesystems ==
    LET full(pre) == [path \in Paths |->
                        IF path \in Preexisting THEN pre[path] ELSE "absent"]
    IN {full(pre) : pre \in {c \in [Preexisting -> Kinds] :
                                /\ \A path \in Preexisting : c[path] \in MayBe(path)
                                /\ Consistent(full(c))}}

\* before any call of create_folder_structure
IdleFolders ==
    /\ fs = [path \in Paths |-> "absent"]
    /\ fs_before = fs
    /\ pc = "idle"
    /\ idx = 0
    /\ raised = "None"
    /\ calls = 0

InitFolders ==
    /\ fs \in InitialFilesystems
    /\ fs_before = fs
    /\ pc = "idle"
    /\ idx = 0
    /\ raised = "None"
    /\ calls = 0

\* create_folder_structure(base_path) is entered
Call ==
    /\ pc \in {"idle", "done"}
    /\ calls < MaxCalls
    /\ calls' = calls + 1
    /\ fs_before' = fs
    /\ pc' = "folders"
    /\ idx' = 1
    /\ UNCHANGED <<fs, raised, hvars, svars, avars, evars, pvars, tvars>>

\* one round of: for folder in folders: os.makedirs(os.path.join(base_path, folder), exist_ok=True)
MakeFolder ==
    /\ pc = "folders"
    /\ LET r == os_makedirs(fs, os_path_join(base_path, folders[idx]))
       IN /\ fs' = r.fs
          /\ raised' = r.exc
          /\ IF r.exc # "None" THEN pc' = "raised" /\ idx' = idx
             ELSE IF idx < Len(folders) THEN pc' = pc /\ idx' = idx + 1
             ELSE pc' = "files" /\ idx' = 1
    /\ UNCHANGED <<fs_before, calls, hvars, svars, avars, evars, pvars, tvars>>

\* one round of: for file in files: open(os.path.join(base_path, file), 'a').close()
TouchFile ==
    /\ pc = "files"
    /\ LET r == open_append(fs, os_path_join(base_path, files[idx]))
       IN /\ fs' = r.fs
          /\ raised' = r.exc
          /\ IF r.exc # "None" THEN pc' = "raised" /\ idx' = idx
             ELSE IF idx < Len(files) THEN pc' = pc /\ idx' = idx + 1
             ELSE pc' = "done" /\ idx' = 0
    /\ UNCHANGED <<fs_before, calls, hvars, svars, avars, evars, pvars, tvars>>

\* ---------------------------------------------------------- specifications
\* ------------------------------------------------ class attribute model
\* the names a reader goes through: the class, or one of its instances
DataHandlerClass == "DataHandler"
DataProcessorClass == "DataProcessor"
ProcessorNames == {"p1", "p2"}
\* data_source = "Default Data Source"
DefaultDataSource == "Default Data Source"
\* DataProcessor.set_data_source("New Data Source")
SourceInputs == {DefaultDataSource, "New Data Source", "train.csv"}

\* the attributes __init__ stores on a DataHandler object: self.data = data
DataHandler_instance_dict(h) == [data |-> handler[h]]
\* the attributes __init__ stores on a DataProcessor object: self.data = data
DataProcessor_instance_dict(p) == [data |-> "data"]

\* the objects of each type that exist
ConstructedHandlers == {h \in Handlers : handler[h] # NoRef}
DefaultColumnsReaders == {DataHandlerClass} \cup ConstructedHandlers
DataSourceReaders == {DataProcessorClass} \cup processors

\* attribute lookup: the object's own attributes first, then its class
getattr_default_columns_per_instance(via) ==
    IF via \in Handlers THEN heap[handler[via]].columns ELSE default_columns
getattr_default_columns(via) ==
    IF via \in Handlers /\ "default_columns" \in DOMAIN DataHandler_instance_dict(via)
    THEN DataHandler_instance_dict(via)["default_columns"]
    ELSE default_columns
\* get_data_source is a class method: cls is the class, also when it is called
\* on an instance, and cls.data_source is looked up on the class
getattr_data_source(via) ==
    IF via \in ProcessorNames /\ "data_source" \in DOMAIN DataProcessor_instance_dict(via)
    THEN DataProcessor_instance_dict(via)["data_source"]
    ELSE data_source

IdleClassAttributes ==
    /\ data_source = DefaultDataSource
    /\ processors = {}

\* DataHandler.default_columns or handler.default_columns, read by the user
get_default_columns(via) ==
    /\ via \in DefaultColumnsReaders
    /\ last' = [NoCall EXCEPT !.op = "get_default_columns", !.self = via,
                              !.ret = getattr_default_columns(via)]
    /\ UNCHANGED <<default_columns, heap, data, handler, svars, fvars, avars, evars, pvars, tvars>>

\* processor = DataProcessor(data)
ConstructProcessor(p) ==
    /\ p \notin processors
    /\ processors' = processors \cup {p}
    /\ last' = [NoCall EXCEPT !.op = "DataProcessor.__init__", !.self = p]
    /\ UNCHANGED <<data_source, default_columns, heap, data, handler, svars, fvars, evars, pvars, tvars>>

\* DataProcessor.set_data_source(source)
set_data_source(source) ==
    /\ data_source' = source
    /\ last' = [NoCall EXCEPT !.op = "set_data_source", !.arg = source]
    /\ UNCHANGED <<processors, default_columns, heap, data, handler, svars, fvars, evars, pvars, tvars>>

\* DataProcessor.get_data_source() or processor.get_data_source()
get_data_source(via) ==
    /\ via \in DataSourceReaders
    /\ last' = [NoCall EXCEPT !.op = "get_data_source", !.self = via,
                              !.ret = getattr_data_source(via)]
    /\ UNCHANGED <<default_columns, heap, data, handler, svars, fvars, avars, evars, pvars, tvars>>

\* ------------------------------------------------- abstraction model
\* class DataProcessor(ABC): read_data and process_data are @abstractmethod
AbstractBase == "DataProcessor"
abstractmethods == {"read_data", "process_data"}
\* the methods each class body defines: the two subclasses of the notebook, and
\* the subclasses that implement one of the two methods
ClassBody == [DataProcessor |-> {},
              ExcelDataProcessor |-> {},
              CSVDataProcessor |-> {"read_data", "process_data"},
              ReadOnlyDataProcessor |-> {"read_data"},
              ProcessOnlyDataProcessor |-> {"process_data"}]
ClassNames == DOMAIN ClassBody
\* cls.__abstractmethods__: the abstract methods the class does not override
missing_when_all_missing(cls) ==
    IF ClassBody[cls] = {} THEN abstractmethods ELSE {}
missing_implementations(cls) == abstractmethods \ ClassBody[cls]

\* dp = cls()
Instantiate(cls) ==
    /\ IF missing_implementations(cls) # {}
       THEN /\ last' = [NoCall EXCEPT !.op = "instantiate", !.self = cls,
                                      !.exc = "TypeError",
                                      !.msg = "Can't instantiate abstract class"]
            /\ UNCHANGED instances
       ELSE /\ instances[cls] < MaxObjects
            /\ last' = [NoCall EXCEPT !.op = "instantiate", !.self = cls]
            /\ instances' = [instances EXCEPT ![cls] = @ + 1]
    /\ UNCHANGED <<processor_data, default_columns, heap, data, handler,
                   svars, fvars, avars, pvars, tvars>>

\* ------------------------------------------------ encapsulation model
\* A member name: its leading underscores (or mangling prefix), its stem and
\* its trailing underscores.
Name(lead, stem, trail) == [lead |-> lead, stem |-> stem, trail |-> trail]
NameStr(n) == n.lead \o n.stem \o n.trail
\* the names the body of class DataProcessor defines
ClassBodyNames == {Name("__", "init", "__"), Name("", "read_data", ""),
                   Name("", "process_data", ""), Name("_", "clean_data", ""),
                   Name("__", "load_data", "")}
\* name mangling: inside a class body, a name with two leading underscores
\* that does not end in two underscores gets the class name in front
mangle_never(n) == n
mangle(n) ==
    IF n.lead = "__" /\ n.trail # "__"
    THEN [n EXCEPT !.lead = "_DataProcessor__"]
    ELSE n
\* the namespaces a lookup on the object goes through
InstanceDict == {Name("_", "data", "")}
ClassDict == {mangle(n) : n \in ClassBodyNames}
ObjectDict == {Name("__", "str", "__")}
\* the member of the class body a key of the class namespace stands for
Member(key) == CHOOSE n \in ClassBodyNames : mangle(n) = key
\* the names code outside the class uses on processor
ExternalNames == {Name("", "read_data", ""), Name("", "process_data", ""),
                  Name("_", "data", ""), Name("_", "clean_data", ""),
                  Name("_DataProcessor__", "load_data", ""),
                  Name("__", "load_data", ""), Name("__", "str", "__")}
Sources == {"train.csv", "example.csv"}
None == "None"
\* self._data = "Data from " + source
load_data(source) == "Data from " \o source
\* what a call of a member of the class body leaves in self._data; read_data
\* calls self.__load_data(source), a name the class body mangles
member_effect(m, source, held) ==
    CASE m = Name("__", "load_data", "") -> load_data(source)
      [] m = Name("", "read_data", "") ->
            IF mangle(Name("__", "load_data", "")) \in ClassDict
            THEN load_data(source) ELSE held
      [] OTHER -> held

IdleEncapsulation ==
    /\ processor_data = None
    /\ instances = [cls \in ClassNames |-> 0]

\* processor = DataProcessor()
ConstructEncapsulated ==
    /\ processor_data' = None
    /\ last' = [NoCall EXCEPT !.op = "__init__", !.self = "processor"]
    /\ UNCHANGED <<instances, default_columns, heap, data, handler,
                   svars, fvars, avars, pvars, tvars>>

\* processor.<name> or processor.<name>(...) written outside the class: the
\* name is looked up as written, on the object, its class and object
Access(name, source) ==
    /\ IF name \in InstanceDict
       THEN /\ last' = [NoCall EXCEPT !.op = NameStr(name), !.self = "processor",
                                      !.ret = processor_data]
            /\ UNCHANGED processor_data
       ELSE IF name \in ClassDict
       THEN /\ last' = [NoCall EXCEPT !.op = NameStr(name), !.self = "processor",
                                      !.arg = source]
            /\ processor_data' = member_effect(Member(name), source, processor_data)
       ELSE IF name \in ObjectDict
       THEN /\ last' = [NoCall EXCEPT !.op = NameStr(name), !.self = "processor",
                                      !.ret = "<__main__.DataProcessor object>"]
            /\ UNCHANGED processor_data
       ELSE /\ last' = [NoCall EXCEPT !.op = NameStr(name), !.self = "processor",
                                      !.arg = source,
                                      !.exc = "AttributeError",
                                      !.msg = "'DataProcessor' object has no attribute"]
            /\ UNCHANGED processor_data
    /\ UNCHANGED <<instances, default_columns, heap, data, handler,
                   svars, fvars, avars, pvars, tvars>>

\* ---------------------------------------------- processing pipeline model
\* self._data = None, or the DataFrame read_data stored
PyNone == [type |-> "NoneType"]
DataFrame(columns, rows) == [type |-> "DataFrame", columns |-> columns, rows |-> rows]
\* a cell read from a file: a value, or NaN where the file has none
NaNCell == "nan"
Cells == {"1", NaNCell}
FileColumns == <<"a", "b">>
FileRows == [{FileColumns[i] : i \in 1..Len(FileColumns)} -> Cells]
FileTables == {DataFrame(FileColumns, rows) :
                  rows \in UNION {[1..n -> FileRows] : n \in 0..MaxTableRows}}
\* class CSVDataProcessor(DataProcessor), class JSONDataProcessor(DataProcessor)
PipelineClasses == {"CSVDataProcessor", "JSONDataProcessor"}
Unbound == "unbound"
\* the file each example reads, and a path that names no file
SampleSource == [CSVDataProcessor |-> "sample.csv", JSONDataProcessor |-> "sample.json"]
PipelineSources == {"sample.csv", "sample.json", "absent"}
\* what pd.read_csv / pd.read_json raise for a path that names no file
ReadErrors == [CSVDataProcessor |-> {"FileNotFoundError"},
               JSONDataProcessor |-> {"FileNotFoundError", "ValueError"}]

\* DataFrame.dropna(inplace=True): the rows that have a NaN cell are dropped
HasNaN(row) == \E c \in DOMAIN row : row[c] = NaNCell
dropna(table) ==
    LET Keep(row) == ~HasNaN(row)
    IN [table EXCEPT !.rows = SelectSeq(table.rows, Keep)]
\* df['processed'] = True: the column is added, or overwritten, in every row
setitem_processed(table) ==
    [table EXCEPT
       !.columns = IF \E i \in 1..Len(@) : @[i] = "processed" THEN @
                   ELSE Append(@, "processed"),
       !.rows = [i \in 1..Len(@) |->
                   [c \in DOMAIN @[i] \cup {"processed"} |->
                       IF c = "processed" THEN "True" ELSE @[i][c]]]]

\* def process_data(self): self._clean_data(); self._transform_data()
process_data_steps_swapped == <<"_transform_data", "_clean_data">>
process_data_steps == <<"_clean_data", "_transform_data">>
\* one method of the class, run on what self._data holds
\*   _clean_data: self._data.dropna(inplace=True)
\*   _transform_data: self._data['processed'] = True
run_method_tolerates_none(method, held) ==
    IF held = PyNone THEN [data |-> held, exc |-> "None"]
    ELSE IF method = "_clean_data" THEN [data |-> dropna(held), exc |-> "None"]
    ELSE [data |-> setitem_processed(held), exc |-> "None"]
run_method(method, held) ==
    IF method = "_clean_data"
    THEN IF held = PyNone
         THEN [data |-> held, exc |-> "AttributeError"]
         ELSE [data |-> dropna(held), exc |-> "None"]
    ELSE IF held = PyNone
         THEN [data |-> held, exc |-> "TypeError"]
         ELSE [data |-> setitem_processed(held), exc |-> "None"]
\* the methods run one after the other, up to the first that raises
RECURSIVE run_methods(_, _, _)
run_methods(methods, held, done) ==
    IF methods = <<>> THEN [data |-> held, exc |-> "None", trace |-> done]
    ELSE LET out == run_method(Head(methods), held)
         IN IF out.exc # "None"
            THEN [data |-> out.data, exc |-> out.exc,
                  trace |-> Append(done, Head(methods))]
            ELSE run_methods(Tail(methods), out.data, Append(done, Head(methods)))

IdlePipeline ==
    /\ disk = DataFrame(FileColumns, <<>>)
    /\ pipeline_class = Unbound
    /\ pipeline_data = PyNone
    /\ trace = <<>>

InitPipelineState ==
    /\ disk \in FileTables
    /\ pipeline_class = Unbound
    /\ pipeline_data = PyNone
    /\ trace = <<>>

\* processor = CSVDataProcessor() or processor = JSONDataProcessor()
ConstructPipeline(cls) ==
    /\ pipeline_class' = cls
    /\ pipeline_data' = PyNone
    /\ trace' = <<>>
    /\ last' = [NoCall EXCEPT !.op = "__init__", !.self = cls]
    /\ UNCHANGED <<disk, default_columns, heap, data, handler, svars, fvars,
                   avars, evars, tvars>>

\* processor.read_data(source)
read_data(source) ==
    /\ pipeline_class # Unbound
    /\ trace' = <<>>
    /\ IF source = SampleSource[pipeline_class]
       THEN /\ pipeline_data' = disk
            /\ last' = [NoCall EXCEPT !.op = "read_data", !.self = pipeline_class,
                                      !.arg = source]
       ELSE /\ \E err \in ReadErrors[pipeline_class] :
                  last' = [NoCall EXCEPT !.op = "read_data", !.self = pipeline_class,
                                         !.arg = source, !.exc = err]
            /\ UNCHANGED pipeline_data
    /\ UNCHANGED <<disk, pipeline_class, default_columns, heap, data, handler,
                   svars, fvars, avars, evars, tvars>>

\* processor.process_data()
process_data ==
    /\ pipeline_class # Unbound
    /\ LET out == run_methods(process_data_steps, pipeline_data, <<>>)
       IN /\ pipeline_data' = out.data
          /\ trace' = out.trace
          /\ last' = [NoCall EXCEPT !.op = "process_data", !.self = pipeline_class,
                                    !.exc = out.exc]
    /\ UNCHANGED <<disk, pipeline_class, default_columns, heap, data, handler,
                   svars, fvars, avars, evars, tvars>>

\* processor.get_data()
get_data ==
    /\ pipeline_class # Unbound
    /\ trace' = <<>>
    /\ last' = [NoCall EXCEPT !.op = "get_data", !.self = pipeline_class,
                              !.ret = pipeline_data]
    /\ UNCHANGED <<disk, pipeline_class, pipeline_data, default_columns, heap,
                   data, handler, svars, fvars, avars, evars, tvars>>

\* ------------------------------------------------- file-sorting model
\* The script is run in a kernel in which the cell before it has run (it
\* imports os and calls create_folder_structure("project")), so the folders
\* of the scaffold exist. The notebook types the string quotes of the script
\* as typographic quotes, which Python rejects; the statements are modelled as
\* they run once the quotes are typed as ASCII quotes.
Extensions == {"ipynb", "xls", "md", "csv", "json"}
\* a file name: its extension, a number that tells it from the other files of
\* the extension, and whether it starts with a dot
FileName(ext, n, hidden) == [ext |-> ext, n |-> n, hidden |-> hidden]
VisibleNames == {FileName(ext, n, FALSE) : ext \in Extensions, n \in 1..MaxFiles}
HiddenNames == {FileName(ext, 1, TRUE) : ext \in {"ipynb", "csv"}}
\* os.path.join(base_path, "notebooks") and the other three targets of shutil.move
TargetOf == [ipynb |-> "project/notebooks", xls |-> "project/data/raw",
             json |-> "project/data/interim", csv |-> "project/data/external"]
Targets == {TargetOf[ext] : ext \in DOMAIN TargetOf}
QuoteStyles == {"typographic", "ascii"}

\* glob.glob("./*ext"): the names that end in ext; * matches no leading dot
glob_matches_hidden(ext, dir) == {f \in dir : f.ext = ext}
glob(ext, dir) == {f \in dir : f.ext = ext /\ ~f.hidden}

\* shutil.move(file, folder), folder an existing directory: the file goes into
\* the folder under its own name, unless the folder has a file of that name
shutil_move_keeps_source(file, folder, dir, targets) ==
    IF file \in targets[folder]
    THEN [cwd |-> dir, dest |-> targets, exc |-> "shutil.Error"]
    ELSE [cwd |-> dir,
          dest |-> [targets EXCEPT ![folder] = @ \cup {file}],
          exc |-> "None"]
shutil_move(file, folder, dir, targets) ==
    IF file \in targets[folder]
    THEN [cwd |-> dir, dest |-> targets, exc |-> "shutil.Error"]
    ELSE [cwd |-> dir \ {file},
          dest |-> [targets EXCEPT ![folder] = @ \cup {file}],
          exc |-> "None"]

\* the current directories and scaffolds the script is started in
InitialDirectories ==
    {{f \in VisibleNames : f.n <= count[f.ext]} \cup hidden :
        count \in [Extensions -> 0..MaxFiles], hidden \in SUBSET HiddenNames}
InitialTargets ==
    {[t \in Targets |->
         IF t = TargetOf.ipynb /\ "ipynb" \in pre THEN {FileName("ipynb", 1, FALSE)}
         ELSE IF t = TargetOf.csv /\ "csv" \in pre THEN {FileName("csv", 1, FALSE)}
         ELSE {}] : pre \in SUBSET {"ipynb", "csv"}}
NoGlob == [ext \in Extensions |-> {}]

IdleSorting ==
    /\ cwd = {}
    /\ dest = [t \in Targets |-> {}]
    /\ copied = {}
    /\ cwd_before = {}
    /\ dest_before = [t \in Targets |-> {}]
    /\ globbed = NoGlob
    /\ sort_pc = "idle"
    /\ sort_raised = "None"

InitSorting ==
    /\ cwd \in InitialDirectories
    /\ dest \in InitialTargets
    /\ copied = {}
    /\ cwd_before = cwd
    /\ dest_before = dest
    /\ globbed = NoGlob
    /\ sort_pc = "start"
    /\ sort_raised = "None"

\* the stage that follows a loop, or the loop itself while it has files left
Stage(loop, remaining, after) == IF remaining = {} THEN after ELSE loop

\* the cell is compiled; then the five glob.glob calls
Glob(quotes) ==
    /\ sort_pc = "start"
    /\ IF quotes = "typographic"
       THEN /\ sort_pc' = "failed"
            /\ sort_raised' = "SyntaxError"
            /\ UNCHANGED globbed
       ELSE /\ globbed' = [ext \in Extensions |-> glob(ext, cwd)]
            /\ sort_pc' = Stage("notebooks", glob("ipynb", cwd), "raw")
            /\ UNCHANGED sort_raised
    /\ UNCHANGED <<cwd, dest, copied, cwd_before, dest_before,
                   hvars, svars, fvars, avars, evars, pvars>>

\* one round of a loop: shutil.move(file, os.path.join(base_path, folder))
MoveEach(loop, ext, after) ==
    /\ \E file \in globbed[ext] :
          LET out == shutil_move(file, TargetOf[ext], cwd, dest)
              remaining == globbed[ext] \ {file}
          IN /\ cwd' = out.cwd
             /\ dest' = out.dest
             /\ sort_raised' = out.exc
             /\ IF out.exc = "None"
                THEN /\ globbed' = [globbed EXCEPT ![ext] = remaining]
                     /\ sort_pc' = Stage(loop, remaining, after)
                ELSE /\ sort_pc' = "failed"
                     /\ UNCHANGED globbed
    /\ UNCHANGED <<copied, cwd_before, dest_before,
                   hvars, svars, fvars, avars, evars, pvars>>

\* shutil.move(raw[0], ...) and shutil.move(jsonFiles[0], ...): the first
\* match, in the order glob happened to return; IndexError without a match
MoveFirst(ext, after) ==
    /\ IF globbed[ext] = {}
       THEN /\ sort_pc' = "failed"
            /\ sort_raised' = "IndexError"
            /\ UNCHANGED <<cwd, dest>>
       ELSE \E file \in globbed[ext] :
              LET out == shutil_move(file, TargetOf[ext], cwd, dest)
              IN /\ cwd' = out.cwd
                 /\ dest' = out.dest
                 /\ sort_raised' = out.exc
                 /\ sort_pc' = IF out.exc = "None" THEN after ELSE "failed"
    /\ UNCHANGED <<copied, globbed, cwd_before, dest_before,
                   hvars, svars, fvars, avars, evars, pvars>>

\* for file in files: shutil.move(file, os.path.join(base_path, "notebooks"))
MoveNotebooks ==
    /\ sort_pc = "notebooks"
    /\ MoveEach("notebooks", "ipynb", "raw")
\* shutil.move(raw[0], os.path.join(base_path, "data/raw"))
MoveRaw ==
    /\ sort_pc = "raw"
    /\ MoveFirst("xls", "md")
\* shutil.copy(md[0], base_path): the file is written into project, over a
\* file of its name if there is one, and stays where it is
CopyMarkdown ==
    /\ sort_pc = "md"
    /\ IF globbed["md"] = {}
       THEN /\ sort_pc' = "failed"
            /\ sort_raised' = "IndexError"
            /\ UNCHANGED copied
       ELSE /\ \E file \in globbed["md"] : copied' = copied \cup {file}
            /\ sort_pc' = "json"
            /\ UNCHANGED sort_raised
    /\ UNCHANGED <<cwd, dest, globbed, cwd_before, dest_before,
                   hvars, svars, fvars, avars, evars, pvars>>
\* shutil.move(jsonFiles[0], os.path.join(base_path, "data/interim"))
MoveJson ==
    /\ sort_pc = "json"
    /\ MoveFirst("json", Stage("external", globbed["csv"], "done"))
\* for csvf in csv: shutil.move(csvf, os.path.join(base_path, "data/external"))
MoveCsv ==
    /\ sort_pc = "external"
    /\ MoveEach("external", "csv", "done")

Init == InitHandler /\ IdleStats /\ IdleFolders /\ IdleClassAttributes /\ IdleEncapsulation /\ IdlePipeline /\ IdleSorting

Next ==
    \/ NewTable
    \/ \E h \in Handlers : Construct(h)
    \/ \E c \in ColumnInputs : set_default_columns(c)
    \/ \E r \in Records : ValidateRecord(r)
    \/ \E h \in Handlers, r \in Records : add_record(h, r)

\* the DataHandler class and its callers
Spec == Init /\ [][Next]_vars

InitStats == InitHandler /\ InitStatistics /\ IdleFolders /\ IdleClassAttributes /\ IdleEncapsulation /\ IdlePipeline /\ IdleSorting

NextStats ==
    \/ CallNormalize
    \/ CallStandardize
    \/ CallCalculateMean

\* calculate_mean, normalize and standardize over every bounded input list
SpecStats == InitStats /\ [][NextStats]_vars

InitFS == InitHandler /\ IdleStats /\ InitFolders /\ IdleClassAttributes /\ IdleEncapsulation /\ IdlePipeline /\ IdleSorting

NextFS ==
    \/ Call
    \/ MakeFolder
    \/ TouchFile

\* create_folder_structure, loop round by loop round, over every initial file system
SpecFS == InitFS /\ [][NextFS]_vars

InitAttr == InitHandler /\ IdleStats /\ IdleFolders /\ IdleClassAttributes /\ IdleEncapsulation /\ IdlePipeline /\ IdleSorting

NextAttr ==
    \/ NewTable
    \/ \E h \in Handlers : Construct(h)
    \/ \E c \in ColumnInputs : set_default_columns(c)
    \/ \E via \in {DataHandlerClass} \cup Handlers : get_default_columns(via)
    \/ \E p \in ProcessorNames : ConstructProcessor(p)
    \/ \E s \in SourceInputs : set_data_source(s)
    \/ \E via \in {DataProcessorClass} \cup ProcessorNames : get_data_source(via)

\* the class attributes of DataHandler and DataProcessor, set through the class
\* and read through the class and through instances
SpecAttr == InitAttr /\ [][NextAttr]_vars

InitEncap == InitHandler /\ IdleStats /\ IdleFolders /\ IdleClassAttributes
                /\ IdleEncapsulation /\ IdlePipeline /\ IdleSorting

NextEncap ==
    \/ \E cls \in ClassNames : Instantiate(cls)
    \/ ConstructEncapsulated
    \/ \E name \in ExternalNames, source \in Sources : Access(name, source)

\* the abstraction example (instantiating the abstract base and its
\* subclasses) and the encapsulation example (access to members of processor
\* from outside the class)
SpecEncap == InitEncap /\ [][NextEncap]_vars

InitPipeline == InitHandler /\ IdleStats /\ IdleFolders /\ IdleClassAttributes
                   /\ IdleEncapsulation /\ InitPipelineState /\ IdleSorting

NextPipeline ==
    \/ \E cls \in PipelineClasses : ConstructPipeline(cls)
    \/ \E source \in PipelineSources : read_data(source)
    \/ process_data
    \/ get_data

\* the data processing pipeline: a CSVDataProcessor or JSONDataProcessor over
\* every bounded content of the sample file
SpecPipeline == InitPipeline /\ [][NextPipeline]_vars

InitSort == InitHandler /\ IdleStats /\ IdleFolders /\ IdleClassAttributes
               /\ IdleEncapsulation /\ IdlePipeline /\ InitSorting

NextSort ==
    \/ \E quotes \in QuoteStyles : Glob(quotes)
    \/ MoveNotebooks
    \/ MoveRaw
    \/ CopyMarkdown
    \/ MoveJson
    \/ MoveCsv

\* the file-sorting script, statement by statement, over every bounded
\* current directory
SpecSort == InitSort /\ [][NextSort]_vars

\* ------------------------------------------------------ DataHandler claims
\* the table a constructed handler holds in self.data
Table(h) == heap[handler[h]]

\* C1: whenever validate_record(record) has returned, its result is True exactly
\* when the record has as many fields as there are declared default columns.
C1_ValidateIffFieldCount ==
    last.op = "validate_record" =>
        last.ret = PyBool(Len(last.arg) = Len(default_columns))

\* C1 witness: validate_record has accepted a four-field record after the default
\* columns were re-declared and a row was added.
C1_Witness ==
    /\ last.op = "validate_record"
    /\ last.ret = "True"
    /\ Len(last.arg) = 4
    /\ default_columns = ExampleColumns
    /\ Len(Table("h1").rows) = 1

\* C2 (as claimed): add_record with a record whose field count equals the number
\* of declared default columns appends it as the new last row of the handler's
\* table, all earlier rows unchanged.
C2_ValidRecordAppended ==
    [][(last'.op = "add_record" /\ Len(last'.arg) = Len(default_columns)) =>
         /\ last'.exc = "None"
         /\ heap'[handler'[last'.self]].rows
               = Append(heap[handler[last'.self]].rows, last'.arg)]_vars

\* C3: add_record with a record whose field count differs from the number of
\* declared default columns raises ValueError and changes nothing: not the rows
\* or columns of any table, not the declared default columns.
C3_InvalidRecordRejected ==
    [][(last'.op = "add_record" /\ Len(last'.arg) # Len(default_columns)) =>
         /\ last'.exc = "ValueError"
         /\ last'.msg = "Record does not have the correct number of columns"
         /\ heap' = heap
         /\ data' = data
         /\ handler' = handler
         /\ default_columns' = default_columns]_vars

\* C3 witness: add_record has rejected a record on a handler whose table already
\* holds a row.
C3_Witness ==
    /\ last.op = "add_record"
    /\ last.exc = "ValueError"
    /\ last.msg = "Record does not have the correct number of columns"
    /\ Len(Table(last.self).rows) >= 1

\* C4: an add_record call, successful or failing, leaves the declared default
\* columns, the column names of the receiver's table and the table of every
\* other handler as they were.
C4_AddRecordFrame ==
    [][last'.op = "add_record" =>
         /\ default_columns' = default_columns
         /\ heap'[handler'[last'.self]].columns = heap[handler[last'.self]].columns
         /\ \A g \in Handlers \ {last'.self} :
               /\ (handler[g] = NoRef) = (handler'[g] = NoRef)
               /\ handler[g] # NoRef => heap'[handler'[g]] = heap[handler[g]]]_vars

\* C4 witness: add_record has appended a row on one handler while the other
\* handler, built from the same table, exists.
C4_Witness ==
    /\ last.op = "add_record"
    /\ last.exc = "None"
    /\ \A g \in Handlers : handler[g] # NoRef
    /\ \E g \in Handlers \ {last.self} : handler[g] = data

\* ------------------------------------------------------- statistics claims
\* The claims restate the arithmetic over the integers, apart from the model's
\* np_mean and np_var: with N the length and Sum the sum of the input,
\* N * (x - mean) = N * x - Sum and N^3 * variance = the sum of (N * x - Sum)^2.
RECURSIVE IntSum(_)
IntSum(seq) == IF seq = <<>> THEN 0 ELSE seq[1].v + IntSum(Tail(seq))

Dev(seq, i) == Len(seq) * seq[i].v - IntSum(seq)

RECURSIVE SumSqDev(_, _)
SumSqDev(seq, k) == IF k = 0 THEN 0
                    ELSE Dev(seq, k) * Dev(seq, k) + SumSqDev(seq, k - 1)

AllEqual(seq) == \A i, j \in 1..Len(seq) : seq[i] = seq[j]

Standardizing == fn \in {"normalize", "standardize"}

NumericInput == numbers # <<>> /\ IsNumeric(numbers)

\* out is the float (x_i - mean) / std of the input seq
IsQuotient(out, seq, i) ==
    LET n == Len(seq) IN
    IF SumSqDev(seq, n) = 0
    THEN out.kind = "nan"
    ELSE /\ out.kind = "fin"
         /\ out.q.n * n = out.q.d * Dev(seq, i)
         /\ out.v.n * n * n * n = out.v.d * SumSqDev(seq, n)

\* C5: normalize and standardize of a non-empty list of numbers return a list of
\* the same length whose element i is (x_i - mean) / std, mean and std being the
\* mean and the population standard deviation of the whole input, in input
\* order; the call leaves the input list as it was.
C5_ElementwiseStandardScore ==
    [][(fn' \in {"normalize", "standardize"} /\ NumericInput) =>
         /\ numbers' = numbers
         /\ result'.exc = "None"
         /\ Len(result'.value) = Len(numbers)
         /\ \A i \in 1..Len(numbers) : IsQuotient(result'.value[i], numbers, i)]_vars

\* C5 witness: normalize has returned for a three-element list whose first and
\* last elements differ.
C5_Witness ==
    /\ fn = "normalize"
    /\ NumericInput
    /\ Len(numbers) = 3
    /\ numbers[1] # numbers[3]
    /\ result.exc = "None"
    /\ result.value[1] # result.value[3]

\* C6: on the empty list normalize raises ValueError("Data is empty"),
\* standardize and calculate_mean raise ValueError("The list is empty"), and
\* nothing is returned; on a non-empty list none of them raises ValueError.
C6_EmptyInputRaises ==
    fn # "none" =>
        /\ numbers = <<>> =>
             /\ result.exc = "ValueError"
             /\ result.msg = (IF fn = "normalize" THEN "Data is empty"
                              ELSE "The list is empty")
             /\ result.value = <<>>
        /\ numbers # <<>> =>
             /\ result.exc # "ValueError"
             /\ result.msg \notin {"Data is empty", "The list is empty"}

\* C6 witness: calculate_mean has been called on the empty list and has raised.
C6_Witness ==
    /\ fn = "calculate_mean"
    /\ numbers = <<>>
    /\ result.exc = "ValueError"
    /\ result.msg = "The list is empty"

\* np.mean(result) = 0 and np.std(result) = 1, computed exactly on a returned list
OutputMeanZeroStdOne(out) ==
    /\ \A i \in 1..Len(out) : out[i].kind = "fin"
    /\ LET n == Len(out)
           m == RatDivInt(SumRat([i \in 1..n |-> out[i].q]), n)
           sq == [i \in 1..n |-> RatMul(RatSub(out[i].q, m), RatSub(out[i].q, m))]
           var == RatDivInt(SumRat(sq), n)
       IN /\ m.n = 0
          /\ var.n * out[1].v.d = var.d * out[1].v.n

\* C7 (as claimed): for any non-empty numeric list the output of normalize and
\* standardize has mean (approximately) zero and standard deviation
\* (approximately) one.
C7_AnyInputZeroMeanUnitStd ==
    (Standardizing /\ NumericInput) =>
        /\ result.exc = "None"
        /\ OutputMeanZeroStdOne(result.value)

\* C7 (amended): for any non-empty numeric list whose elements are not all equal
\* the output of normalize and standardize has mean zero and standard deviation
\* one.
C7_ZeroMeanUnitStd ==
    (Standardizing /\ NumericInput /\ ~AllEqual(numbers)) =>
        /\ result.exc = "None"
        /\ OutputMeanZeroStdOne(result.value)

\* C7 witness: standardize has returned for a three-element list with three
\* different elements.
C7_Witness ==
    /\ fn = "standardize"
    /\ NumericInput
    /\ Len(numbers) = 3
    /\ Cardinality({numbers[i] : i \in 1..3}) = 3
    /\ result.exc = "None"

\* C8 (as claimed): on a non-empty numeric list of equal elements (standard
\* deviation zero) normalize and standardize fail with a division-by-zero error.
C8_ZeroStdRaises ==
    (Standardizing /\ NumericInput /\ AllEqual(numbers)) =>
        /\ result.exc = "ZeroDivisionError"
        /\ result.value = <<>>

\* C8 (amended): on a non-empty list of equal integers normalize and standardize
\* raise nothing and return a list of the input's length whose every element is
\* nan, the float64 result of 0/0.
C8_ZeroStdReturnsNaN ==
    (Standardizing /\ NumericInput /\ AllEqual(numbers)) =>
        /\ result.exc = "None"
        /\ Len(result.value) = Len(numbers)
        /\ \A i \in 1..Len(numbers) : result.value[i].kind = "nan"

\* C8 witness: normalize has returned for a list of two equal integers.
C8_Witness ==
    /\ fn = "normalize"
    /\ NumericInput
    /\ Len(numbers) = 2
    /\ numbers[1] = numbers[2]
    /\ result.exc = "None"

\* C9: on a non-empty list holding a non-numeric element (a str) normalize and
\* standardize raise TypeError and return nothing.
C9_NonNumericRaisesTypeError ==
    (Standardizing /\ numbers # <<>> /\ ~IsNumeric(numbers)) =>
        /\ result.exc = "TypeError"
        /\ result.value = <<>>

\* C9 witness: standardize has raised on a list that holds a number and a str.
C9_Witness ==
    /\ fn = "standardize"
    /\ \E i, j \in 1..Len(numbers) : numbers[i].t = "int" /\ numbers[j].t = "str"
    /\ result.exc = "TypeError"

\* ------------------------------------------------- folder structure claims
\* C10: when create_folder_structure(base_path) has returned, every directory of
\* the folder list and every file of the file list exists below base_path, a
\* file that did not exist before the call is empty, and no path outside
\* base_path has changed.
C10_StructureCreated ==
    pc = "done" =>
        /\ \A i \in 1..Len(folders) : fs[base_path \o folders[i]] = "dir"
        /\ \A i \in 1..Len(files) :
              /\ fs[base_path \o files[i]] \in RegularFile
              /\ fs_before[base_path \o files[i]] = "absent" =>
                    fs[base_path \o files[i]] = "empty"
        /\ \A path \in Paths :
              Prefix(path, Len(base_path)) # base_path => fs[path] = fs_before[path]

\* C10 witness: the call has returned on a base path that held a LICENSE with
\* content and no src directory, next to a README.md in the current directory.
C10_Witness ==
    /\ pc = "done"
    /\ calls = 1
    /\ fs_before[base_path \o <<"LICENSE">>] = "data"
    /\ fs_before[base_path \o <<"src">>] = "absent"
    /\ fs_before[<<"README.md">>] = "data"

\* ------------------------------------------------- class attribute claims
\* C11: a class attribute is shared by all objects of the type. After
\* set_default_columns(c) (set_data_source(s)) every reader, the class and each
\* instance, reads c (s); any other step, the construction of a new instance
\* included, leaves what every reader reads at the value the class held; and
\* a read returns that value.
C11_ClassAttributeShared ==
    [][ /\ last'.op = "set_default_columns" =>
               \A via \in DefaultColumnsReaders' :
                   getattr_default_columns(via)' = last'.arg
        /\ last'.op = "set_data_source" =>
               \A via \in DataSourceReaders' :
                   getattr_data_source(via)' = last'.arg
        /\ last'.op # "set_default_columns" =>
               \A via \in DefaultColumnsReaders' :
                   getattr_default_columns(via)' = default_columns
        /\ last'.op # "set_data_source" =>
               \A via \in DataSourceReaders' :
                   getattr_data_source(via)' = data_source
        /\ last'.op = "get_default_columns" => last'.ret = default_columns
        /\ last'.op = "get_data_source" => last'.ret = data_source
      ]_vars

\* C11 witness: a handler that holds a three-column table, created before the
\* columns were re-declared, has read the four re-declared columns.
C11_Witness ==
    /\ last.op = "get_default_columns"
    /\ last.self \in Handlers
    /\ last.ret = ExampleColumns
    /\ heap[handler[last.self]].columns = DefaultColumns
    /\ data_source # DefaultDataSource
    /\ processors # {}

\* C12: the static method validate_record is independent of the shared state
\* of the type: the result it gives for a record is the same before and after
\* every step, whatever set_default_columns and add_record calls are made,
\* and a call of it changes no class attribute and no instance attribute.
C12_StaticMethodIndependent ==
    [][ /\ \A record \in Records : validate_record(record)' = validate_record(record)
        /\ last'.op = "validate_record" =>
               UNCHANGED <<default_columns, heap, data, handler>>
      ]_vars

\* C18: in every state reachable by set_default_columns and add_record calls,
\* every row of every live table (the caller's and each handler's) has exactly
\* as many fields as the table has columns, also when the declared default
\* column count differs from the table's.
C18_RowsMatchColumns ==
    \A id \in Referenced(data, handler) :
        \A i \in 1..Len(heap[id].rows) :
            Len(heap[id].rows[i]) = Len(heap[id].columns)

\* C18 witness: add_record was called on a table that holds a row while the
\* declared default columns are one more than the table's columns, with a
\* record of the declared length.
C18_Witness ==
    /\ last.op = "add_record"
    /\ Len(last.arg) = Len(default_columns)
    /\ Len(default_columns) # Len(Table(last.self).columns)
    /\ Len(Table(last.self).rows) >= 1

\* C19: when add_record succeeds on a handler, the table held by another
\* handler constructed from the same table, and the table the caller passed
\* in, are left as they were.
C19_SharedTableUntouched ==
    [][(last'.op = "add_record" /\ last'.exc = "None") =>
         /\ \A g \in Handlers \ {last'.self} :
               handler[g] = handler[last'.self] =>
                   /\ handler'[g] # NoRef
                   /\ heap'[handler'[g]] = heap[handler[g]]
         /\ heap'[data'] = heap[data]]_vars

\* C19 witness: one handler holds a row after a successful add_record while the
\* other handler still holds the caller's table, which has no row.
C19_Witness ==
    /\ last.op = "add_record"
    /\ last.exc = "None"
    /\ Len(Table(last.self).rows) = 1
    /\ \E g \in Handlers \ {last.self} :
          /\ handler[g] = data
          /\ heap[data].rows = <<>>
          /\ heap[data].columns = Table(last.self).columns

\* ----------------------------------- abstraction and encapsulation claims
\* C13: the data a DataProcessor object holds in _data changes only through a
\* call of one of its public methods read_data and process_data (or when the
\* object is constructed): no other operation of outside code changes it.
C13_DataChangedOnlyByPublicMethods ==
    [][processor_data' # processor_data =>
         last'.op \in {"read_data", "process_data", "__init__"}]_vars

\* C14, as stated: every access from outside the class to _data, _clean_data
\* or __load_data raises an attribute error and leaves the object's state
\* unchanged.
C14_PrivateAccessRaises ==
    [][last'.op \in {"_data", "_clean_data", "__load_data"} =>
         /\ last'.exc = "AttributeError"
         /\ processor_data' = processor_data]_vars

\* C14, amended: an access from outside the class to __load_data under that
\* name raises an attribute error and leaves the object's state unchanged; an
\* access from outside to _data or _clean_data raises nothing, and leaves the
\* object's state unchanged too.
C14_OnlyDoubleUnderscoreRaises ==
    [][ /\ last'.op = "__load_data" =>
               /\ last'.exc = "AttributeError"
               /\ processor_data' = processor_data
        /\ last'.op \in {"_data", "_clean_data"} =>
               /\ last'.exc = "None"
               /\ processor_data' = processor_data
        /\ last'.op = "_data" => last'.ret = processor_data
      ]_vars

\* C14 witness: processor.__load_data("example.csv") has raised an attribute
\* error on an object that holds the data read from train.csv.
C14_Witness ==
    /\ last.op = "__load_data"
    /\ last.arg = "example.csv"
    /\ last.exc = "AttributeError"
    /\ processor_data = "Data from train.csv"

\* C15: instantiating a class of the abstraction example raises TypeError
\* exactly when the class leaves one of read_data and process_data
\* unimplemented, and then no object is created; otherwise one object is
\* created; the abstract base is never instantiated.
C15_AbstractInstantiation ==
    [][last'.op = "instantiate" =>
         /\ (last'.exc = "TypeError") <=>
               (\E method \in {"read_data", "process_data"} :
                    method \notin ClassBody[last'.self])
         /\ last'.exc = "TypeError" => instances' = instances
         /\ last'.exc # "TypeError" =>
               instances' = [instances EXCEPT ![last'.self] = @ + 1]
         /\ last'.self = AbstractBase => last'.exc = "TypeError"
         /\ instances'[AbstractBase] = 0]_vars

\* C15 witness: a subclass that implements read_data only was refused after an
\* object of the subclass that implements both methods had been created.
C15_Witness ==
    /\ last.op = "instantiate"
    /\ last.self = "ReadOnlyDataProcessor"
    /\ last.exc = "TypeError"
    /\ instances["CSVDataProcessor"] >= 1
    /\ instances["ReadOnlyDataProcessor"] = 0

\* ------------------------------------------------ processing pipeline claims
\* a table in which no row has a missing value and every row has processed = True
CleanAndProcessed(table) ==
    /\ table # PyNone
    /\ \A i \in 1..Len(table.rows) :
          /\ \A c \in DOMAIN table.rows[i] : table.rows[i][c] # "nan"
          /\ "processed" \in DOMAIN table.rows[i]
          /\ table.rows[i]["processed"] = "True"

\* C17: a successful process_data of CSVDataProcessor or JSONDataProcessor has
\* run _clean_data and then _transform_data; the table it leaves, which is the
\* table get_data returns next, has no row with a missing value and
\* processed = True in every row; a process_data that follows a successful
\* process_data leaves the table unchanged.
C17_CleanThenTransform ==
    [][ /\ (last'.op = "process_data" /\ last'.exc = "None") =>
               /\ trace' = <<"_clean_data", "_transform_data">>
               /\ CleanAndProcessed(pipeline_data')
        /\ (last.op = "process_data" /\ last.exc = "None"
                /\ last'.op = "get_data") =>
               CleanAndProcessed(last'.ret)
        /\ (last.op = "process_data" /\ last.exc = "None"
                /\ last'.op = "process_data") =>
               /\ last'.exc = "None"
               /\ pipeline_data' = pipeline_data
      ]_vars

\* C17 witness: process_data has succeeded on a file of two rows, one of them
\* with a missing value, and has left one row.
C17_Witness ==
    /\ last.op = "process_data"
    /\ last.exc = "None"
    /\ Len(disk.rows) = 2
    /\ pipeline_data # PyNone
    /\ Len(pipeline_data.rows) = 1

\* C20: on a CSVDataProcessor or JSONDataProcessor, get_data returns what the
\* object holds and changes nothing; what it holds is None until a read_data
\* call succeeds; process_data called while it is None raises an error and
\* leaves it None.
C20_NoneUntilRead ==
    [][ /\ last'.op = "get_data" =>
               /\ last'.ret = pipeline_data
               /\ pipeline_data' = pipeline_data
        /\ (pipeline_data = PyNone /\ pipeline_data' # PyNone) =>
               /\ last'.op = "read_data"
               /\ last'.exc = "None"
        /\ (last'.op = "process_data" /\ pipeline_data = PyNone) =>
               /\ last'.exc # "None"
               /\ pipeline_data' = PyNone
      ]_vars

\* C20 witness: process_data has raised on a processor that never read the
\* sample file, which has rows, and the processor still holds None.
C20_Witness ==
    /\ last.op = "process_data"
    /\ last.exc = "AttributeError"
    /\ trace = <<"_clean_data">>
    /\ pipeline_data = PyNone
    /\ Len(disk.rows) >= 1

\* ---------------------------------------------------- file-sorting claims
\* the files of a directory that have an extension, and those of them whose
\* name does not start with a dot
WithExtension(ext, dir) == {f \in dir : f.ext = ext}
NotDotted(ext, dir) == {f \in dir : f.ext = ext /\ f.hidden = FALSE}
\* exactly one file of the extension has left the current directory, for the
\* target folder of the extension
OneMoved(ext) ==
    \E f \in WithExtension(ext, cwd_before) :
        /\ WithExtension(ext, cwd) = WithExtension(ext, cwd_before) \ {f}
        /\ dest[TargetOf[ext]] = dest_before[TargetOf[ext]] \cup {f}
\* one .md file was copied into project, and every .md file is where it was
MarkdownCopied ==
    /\ \E f \in WithExtension("md", cwd_before) : copied = {f}
    /\ WithExtension("md", cwd) = WithExtension("md", cwd_before)

PartOfStructure(f) ==
    /\ \A i \in 1..Len(folders) :
          \A k \in 1..Len(base_path \o folders[i]) :
              f[Prefix(base_path \o folders[i], k)] \in {"absent", "dir"}
    /\ \A i \in 1..Len(files) :
          f[base_path \o files[i]] \in {"absent"} \cup RegularFile

\* C21: create_folder_structure called on a base path where some or all of
\* the directories and files already exist raises no error and leaves every
\* file that existed, with its content, as it was; a call that follows a
\* completed call ends in the directory tree that call ended in.
C21_IdempotentNonDestructive ==
    (pc # "idle" /\ PartOfStructure(fs_before)) =>
        /\ pc # "raised"
        /\ raised = "None"
        /\ \A path \in Paths :
              fs_before[path] \in RegularFile => fs[path] = fs_before[path]
        /\ (pc = "done" /\ calls >= 2) => fs = fs_before

\* C21 witness: a second call has returned on the structure the first call
\* completed around a LICENSE that had content.
C21_Witness ==
    /\ pc = "done"
    /\ calls = 2
    /\ PartOfStructure(fs_before)
    /\ fs_before[base_path \o <<"LICENSE">>] = "data"
    /\ fs_before[base_path \o <<"src", "modeling", "train.py">>] = "empty"
    /\ fs[base_path \o <<"LICENSE">>] = "data"

\* C22: in create_folder_structure every directory is created before any
\* file: a round of the folder loop creates no file, and when the file loop
\* is reached every folder of the list is a directory. The directory each
\* file goes into is base_path or a folder of the list, so the directory of
\* the file about to be created exists and no creation ends with
\* FileNotFoundError.
C22_DirectoriesBeforeFiles ==
    [][ /\ \A i \in 1..Len(files) :
              \/ Parent(files[i]) = <<>>
              \/ \E j \in 1..Len(folders) : folders[j] = Parent(files[i])
        /\ pc = "folders" =>
              \A i \in 1..Len(files) :
                  fs'[base_path \o files[i]] = fs[base_path \o files[i]]
        /\ pc' = "files" =>
              /\ \A j \in 1..Len(folders) : fs'[base_path \o folders[j]] = "dir"
              /\ fs'[base_path] = "dir"
              /\ fs'[Parent(base_path \o files[idx'])] = "dir"
        /\ raised' # "FileNotFoundError"
      ]_vars

\* C22 witness: the file loop stands at src/modeling/__init__.py in a call
\* that found no project directory and has created src/modeling itself.
C22_Witness ==
    /\ pc = "files"
    /\ files[idx] = <<"src", "modeling", "__init__.py">>
    /\ fs_before[base_path] = "absent"
    /\ fs[base_path \o <<"src", "modeling">>] = "dir"
    /\ fs[base_path \o <<"src", "modeling", "__init__.py">>] = "absent"

\* ------------------------------------------ file-sorting claims, continued
\* the current directory had no file for one of the three indexed lists
NoMatch == \E ext \in {"xls", "md", "json"} : WithExtension(ext, cwd_before) = {}
\* the files of an extension, and their target folder, are as they were
Untouched(ext) ==
    /\ WithExtension(ext, cwd) = WithExtension(ext, cwd_before)
    /\ ext \in DOMAIN TargetOf => dest[TargetOf[ext]] = dest_before[TargetOf[ext]]
\* what the statements after the notebook loop have done when one of them
\* raised IndexError: nothing without an .xls file; else one .xls file moved,
\* and without an .md file nothing more; else one .md file copied as well
EffectsUpToIndexError ==
    /\ Untouched("csv")
    /\ Untouched("json")
    /\ Untouched("md")
    /\ IF WithExtension("xls", cwd_before) = {}
       THEN Untouched("xls") /\ copied = {}
       ELSE /\ OneMoved("xls")
            /\ IF WithExtension("md", cwd_before) = {}
               THEN copied = {}
               ELSE \E f \in WithExtension("md", cwd_before) : copied = {f}

====
